---- MODULE Spec2Model ----
(* Model of src/app.py: the fair-batch generator's session state            *)
(* (appearance_counts, session_config) and the handlers that read and       *)
(* change it: generate, reset, clean, the two exports, the three imports.   *)
EXTENDS Integers, Sequences, FiniteSets, TLC

VARIABLES
    appearance_counts,  \* app.py:10  dict item -> count (a function on its key set)
    session_config,     \* app.py:11  [N, k, start]
    last,               \* the most recent handler call: its arguments and what it returned
    kept,               \* a full-progress file the user has kept, with the state it was saved from
    calls               \* app.py:19-53  the generate calls in progress: position and locals of each

vars == <<appearance_counts, session_config, last, kept, calls>>

--------------------------------------------------------------------------
(* Bounds of the model *)

\* largest range size N a generate request asks for
MaxN == 2
\* generate is not called once an in-range count has reached this cap
MaxCount == 2
\* the range starts a generate request asks for
Starts == {1, 2}

\* batch sizes requested: 1..MaxN+1, so that k > N happens for every N
MaxK == MaxN + 1

--------------------------------------------------------------------------
(* Python helpers *)

\* range(start, start + N) as a set; empty when N <= 0
RangeSet(start, N) == {i \in start..(start + N - 1) : TRUE}

\* the smallest element of a non-empty set of integers
SetMin(S) == CHOOSE m \in S : \A x \in S : m <= x

\* sorted(S) for a finite set of integers
RECURSIVE sorted(_)
sorted(S) ==
    IF S = {} THEN <<>>
    ELSE LET m == SetMin(S) IN <<m>> \o sorted(S \ {m})

\* the elements of a sequence
ToSet(s) == {s[i] : i \in 1..Len(s)}

\* the empty dict
EmptyCounts == [i \in {} |-> 0]

\* dict.get(i, 0): reads without inserting
Get(counts, i) == IF i \in DOMAIN counts THEN counts[i] ELSE 0

\* defaultdict(int).__getitem__ on every key of S: a missing key is inserted with 0
Touch(counts, S) ==
    [i \in (DOMAIN counts) \cup S |-> IF i \in DOMAIN counts THEN counts[i] ELSE 0]

\* format_counts_for_table: [[k, v] ...] sorted by key, [] for an empty dict
format_counts_for_table(counts_dict) ==
    IF DOMAIN counts_dict = {} THEN <<>>
    ELSE LET ks == sorted(DOMAIN counts_dict)
         IN  [n \in 1..Len(ks) |-> <<ks[n], counts_dict[ks[n]]>>]

DefaultConfig == [N |-> 10, k |-> 3, start |-> 1]

--------------------------------------------------------------------------
(* generate_fair_batch *)

\* full_range as the ordered list range(start, start + N)
full_range(start, N) == sorted(RangeSet(start, N))

\* out_of_range against a range that also holds start + N
out_of_range_closed(counts, start, N) == (DOMAIN counts) \ RangeSet(start, N + 1)

\* keys of the store outside the requested range
out_of_range(counts, start, N) == (DOMAIN counts) \ RangeSet(start, N)

\* the least count among the items the store holds, 0 on the empty store
min_count_of_stored(counts, start, N) ==
    IF DOMAIN counts = {} THEN 0 ELSE SetMin({counts[i] : i \in DOMAIN counts})

\* min(appearance_counts.get(i, 0) for i in full_range)
min_count(counts, start, N) ==
    SetMin({Get(counts, i) : i \in RangeSet(start, N)})

\* eligible with the most-drawn items in place of the least-drawn ones
eligible_of_max(counts, start, N) ==
    SelectSeq(full_range(start, N),
              LAMBDA i : \A j \in RangeSet(start, N) : Get(counts, j) <= Get(counts, i))

\* [i for i in full_range if appearance_counts[i] == min_count], in range order
eligible(counts, start, N) ==
    SelectSeq(full_range(start, N),
              LAMBDA i : Get(counts, i) = min_count(counts, start, N))

\* every order random.shuffle can leave a list in
Shuffles(s) ==
    {p \in [1..Len(s) -> ToSet(s)] : \A i, j \in 1..Len(s) : i # j => p[i] # p[j]}

\* the pop loop leaving the last place of the batch to the fallback
RECURSIVE PopLoopOneShort(_, _, _)
PopLoopOneShort(elig, batch, k) ==
    IF elig # <<>> /\ Len(batch) < k - 1
    THEN PopLoopOneShort(SubSeq(elig, 1, Len(elig) - 1), Append(batch, elig[Len(elig)]), k)
    ELSE batch

\* while eligible and len(batch) < k: batch.append(eligible.pop())
RECURSIVE PopLoop(_, _, _)
PopLoop(elig, batch, k) ==
    IF elig # <<>> /\ Len(batch) < k
    THEN PopLoop(SubSeq(elig, 1, Len(elig) - 1), Append(batch, elig[Len(elig)]), k)
    ELSE batch

\* remaining without the "if i not in batch" filter
remaining_keeps_batch(start, N, batch) == full_range(start, N)

\* [i for i in full_range if i not in batch]
remaining(start, N, batch) ==
    SelectSeq(full_range(start, N), LAMBDA i : i \notin ToSet(batch))

\* every result of random.sample(population, n): n positions drawn without
\* replacement; no result (ValueError) when n exceeds the population
Sample(population, n) ==
    {[j \in 1..n |-> population[p[j]]] :
        p \in {q \in [1..n -> 1..Len(population)] :
                  \A i, j \in 1..n : i # j => q[i] # q[j]}}

\* the batches lines 37-47 can build
Batches(counts, N, k, start) ==
    UNION {
        LET batch == PopLoop(e, <<>>, k)
        IN  IF Len(batch) < k
            THEN {batch \o extra : extra \in Sample(remaining(start, N, batch), k - Len(batch))}
            ELSE {batch}
        : e \in Shuffles(eligible(counts, start, N))}

\* for num in batch: appearance_counts[num] += 1
RECURSIVE Increment(_, _)
Increment(counts, batch) ==
    IF batch = <<>> THEN counts
    ELSE LET num == Head(batch)
             c   == Touch(counts, {num})
         IN  Increment([c EXCEPT ![num] = c[num] + 1], Tail(batch))

\* the rejection placed after line 38, whose appearance_counts[i] inserts every
\* missing item of the range
generate_rejected_late(N, k, start) ==
    /\ k > N
    /\ session_config' = [N |-> N, k |-> k, start |-> start]
    /\ appearance_counts' = Touch(appearance_counts, RangeSet(start, N))
    /\ last' = [op |-> "generate", ok |-> FALSE, msg |-> "rejected", args |-> <<N, k, start>>,
                batch |-> <<>>, warning |-> <<>>, table |-> <<>>, ret |-> <<>>]

\* the rejection placed before session_config.update
generate_rejected_first(N, k, start) ==
    /\ k > N
    /\ UNCHANGED <<session_config, appearance_counts>>
    /\ last' = [op |-> "generate", ok |-> FALSE, msg |-> "rejected", args |-> <<N, k, start>>,
                batch |-> <<>>, warning |-> <<>>, table |-> <<>>, ret |-> <<>>]

\* lines 21-23: the request is adopted, then rejected when k > N
generate_rejected(N, k, start) ==
    /\ k > N
    /\ session_config' = [N |-> N, k |-> k, start |-> start]
    /\ appearance_counts' = appearance_counts
    /\ last' = [op |-> "generate", ok |-> FALSE, msg |-> "rejected", args |-> <<N, k, start>>,
                batch |-> <<>>, warning |-> <<>>, table |-> <<>>, ret |-> <<>>]

\* lines 21, 25-53: the request is adopted and a batch is drawn and counted
generate_batch(N, k, start) ==
    /\ ~(k > N)
    /\ session_config' = [N |-> N, k |-> k, start |-> start]
    /\ \E batch \in Batches(appearance_counts, N, k, start) :
         LET touched == Touch(appearance_counts, RangeSet(start, N))
             counted == Increment(touched, batch)
         IN  /\ appearance_counts' = counted
             /\ last' = [op |-> "generate", ok |-> TRUE, msg |-> "batch", args |-> <<N, k, start>>,
                         batch |-> batch,
                         warning |-> sorted(out_of_range(appearance_counts, start, N)),
                         table |-> format_counts_for_table(counted), ret |-> <<>>]

generate_fair_batch(N, k, start) ==
    \/ generate_rejected(N, k, start)
    \/ generate_batch(N, k, start)

--------------------------------------------------------------------------
(* reset_progress, clean_counts_to_current_range *)

\* reset without the session_config.update of line 59
reset_keeps_config ==
    /\ appearance_counts' = EmptyCounts
    /\ UNCHANGED session_config
    /\ last' = [op |-> "reset", ok |-> TRUE, msg |-> "", args |-> <<>>, batch |-> <<>>,
                warning |-> <<>>, table |-> <<>>, ret |-> <<10, 3, 1>>]

reset_progress ==
    /\ appearance_counts' = EmptyCounts
    /\ session_config' = DefaultConfig
    /\ last' = [op |-> "reset", ok |-> TRUE, msg |-> "", args |-> <<>>, batch |-> <<>>,
                warning |-> <<>>, table |-> <<>>, ret |-> <<10, 3, 1>>]

\* a deletion that stops after the first key outside valid_range
DeleteFirstOutside(counts, valid_range) ==
    LET outside == (DOMAIN counts) \ valid_range
    IN  IF outside = {} THEN counts
        ELSE [i \in (DOMAIN counts) \ {SetMin(outside)} |-> counts[i]]

\* the dict without the keys outside valid_range
DeleteOutside(counts, valid_range) ==
    [i \in (DOMAIN counts) \cap valid_range |-> counts[i]]

\* to_delete is the handler's local list of line 65, kept with the call's record
clean_counts_to_current_range ==
    LET valid_range == RangeSet(session_config.start, session_config.N)
        cleaned     == DeleteOutside(appearance_counts, valid_range)
    IN  /\ appearance_counts' = cleaned
        /\ UNCHANGED session_config
        /\ last' = [op |-> "clean", ok |-> TRUE, msg |-> "cleaned", args |-> <<>>,
                    batch |-> <<>>, warning |-> <<>>,
                    table |-> format_counts_for_table(cleaned), ret |-> <<>>,
                    to_delete |-> sorted((DOMAIN appearance_counts) \ valid_range)]

--------------------------------------------------------------------------
(* JSON texts.  A text is modelled by what json.loads makes of it:          *)
(*   [kind |-> "malformed"]                  json.loads raises              *)
(*   [kind |-> "array"]                      parses, but to no dict         *)
(*   [kind |-> "object", members |-> ms]     a dict of counts; ms is the    *)
(*        sequence of <<key, value>> in text order, a key being the tuple   *)
(*        of its characters and a value an integer                          *)
(*   [kind |-> "full", fields |-> f]         a dict whose keys are among    *)
(*        appearance_counts, N, k, start; f maps each key present to its    *)
(*        value (a counts text for appearance_counts, else an integer)      *)

Digits == {"0", "1", "2", "3", "4", "5", "6", "7", "8", "9"}

DigitVal(c) ==
    CASE c = "0" -> 0 [] c = "1" -> 1 [] c = "2" -> 2 [] c = "3" -> 3 [] c = "4" -> 4
      [] c = "5" -> 5 [] c = "6" -> 6 [] c = "7" -> 7 [] c = "8" -> 8 [] c = "9" -> 9

DigitChar(d) ==
    CASE d = 0 -> "0" [] d = 1 -> "1" [] d = 2 -> "2" [] d = 3 -> "3" [] d = 4 -> "4"
      [] d = 5 -> "5" [] d = 6 -> "6" [] d = 7 -> "7" [] d = 8 -> "8" [] d = 9 -> "9"

\* the digits of a literal, its sign removed
Unsigned(s) == IF s # <<>> /\ s[1] \in {"+", "-"} THEN Tail(s) ELSE s

\* int(s) does not raise ValueError: an optional sign, then one or more digits
IsIntLiteral(s) ==
    /\ Unsigned(s) # <<>>
    /\ \A i \in 1..Len(Unsigned(s)) : Unsigned(s)[i] \in Digits

RECURSIVE DigitsValue(_)
DigitsValue(ds) ==
    IF ds = <<>> THEN 0
    ELSE DigitsValue(SubSeq(ds, 1, Len(ds) - 1)) * 10 + DigitVal(ds[Len(ds)])

\* int(s) for a literal s
int(s) == IF s[1] = "-" THEN 0 - DigitsValue(Unsigned(s)) ELSE DigitsValue(Unsigned(s))

RECURSIVE NatStr(_)
NatStr(n) ==
    IF n < 10 THEN <<DigitChar(n)>>
    ELSE NatStr(n \div 10) \o <<DigitChar(n % 10)>>

\* str that writes no sign
str_unsigned(i) == IF i < 0 THEN NatStr(0 - i) ELSE NatStr(i)

\* str(i): the key json.dumps writes for the integer key i
str(i) == IF i < 0 THEN <<"-">> \o NatStr(0 - i) ELSE NatStr(i)

\* every int(k) of {int(k): v for k, v in items} succeeds
KeysConvert(members) == \A n \in 1..Len(members) : IsIntLiteral(members[n][1])

\* {int(k): v for k, v in items}: a later item replaces an earlier one with the same int(k)
RECURSIVE DictOfItems(_)
DictOfItems(members) ==
    IF members = <<>> THEN EmptyCounts
    ELSE LET before == DictOfItems(SubSeq(members, 1, Len(members) - 1))
             item   == members[Len(members)]
             key    == int(item[1])
         IN  [i \in (DOMAIN before) \cup {key} |-> IF i = key THEN item[2] ELSE before[i]]

\* json.dumps of a dict of counts: each key written by str
DumpCounts(counts) ==
    LET ks == sorted(DOMAIN counts)
    IN  [kind |-> "object", members |-> [n \in 1..Len(ks) |-> <<str(ks[n]), counts[ks[n]]>>]]

\* contents["appearance_counts"], contents["N"], ... : the fields a dict holds
Fields(contents) == IF contents.kind = "full" THEN DOMAIN contents.fields ELSE {}

\* the exception lines 99-101 raise on json_str, "none" when they raise none
LoadCountsError(json_str) ==
    CASE json_str.kind = "malformed" -> "JSONDecodeError"
      [] json_str.kind = "array" -> "AttributeError"
      [] json_str.kind = "full" -> "ValueError"
      [] json_str.kind = "object" ->
            IF KeysConvert(json_str.members) THEN "none" ELSE "ValueError"

\* the exception lines 121-123 raise on json_str, "none" when they raise none
LoadFullCountsError(json_str) ==
    CASE json_str.kind = "malformed" -> "JSONDecodeError"
      [] json_str.kind = "array" -> "TypeError"
      [] json_str.kind = "object" -> "KeyError appearance_counts"
      [] json_str.kind = "full" ->
            IF "appearance_counts" \notin Fields(json_str)
            THEN "KeyError appearance_counts"
            ELSE LET ac == json_str.fields["appearance_counts"]
                 IN  IF ac.kind # "object" THEN "AttributeError"
                     ELSE IF KeysConvert(ac.members) THEN "none" ELSE "ValueError"

\* the exception the dict display of lines 124-128 raises, "none" when it raises none
LoadFullConfigError(json_str) ==
    CASE "N" \notin Fields(json_str) -> "KeyError N"
      [] "k" \notin Fields(json_str) -> "KeyError k"
      [] "start" \notin Fields(json_str) -> "KeyError start"
      [] OTHER -> "none"

--------------------------------------------------------------------------
(* save_counts_only, save_full_progress *)

save_counts_only ==
    /\ UNCHANGED <<appearance_counts, session_config>>
    /\ last' = [op |-> "save_counts", ok |-> TRUE, msg |-> "", args |-> <<>>, batch |-> <<>>,
                warning |-> <<>>, table |-> <<>>,
                ret |-> <<DumpCounts(appearance_counts)>>]

\* a full dump that writes k under "N" and N under "k"
DumpFullSwapped(counts, config) ==
    [kind |-> "full",
     fields |-> [f \in {"appearance_counts", "N", "k", "start"} |->
                   CASE f = "appearance_counts" -> DumpCounts(counts)
                     [] f = "N" -> config.k
                     [] f = "k" -> config.N
                     [] f = "start" -> config.start]]

\* the dict of lines 88-93 as json.dumps writes it
DumpFull(counts, config) ==
    [kind |-> "full",
     fields |-> [f \in {"appearance_counts", "N", "k", "start"} |->
                   CASE f = "appearance_counts" -> DumpCounts(counts)
                     [] f = "N" -> config.N
                     [] f = "k" -> config.k
                     [] f = "start" -> config.start]]

save_full_progress ==
    /\ UNCHANGED <<appearance_counts, session_config>>
    /\ last' = [op |-> "save_full", ok |-> TRUE, msg |-> "", args |-> <<>>, batch |-> <<>>,
                warning |-> <<>>, table |-> <<>>,
                ret |-> <<DumpFull(appearance_counts, session_config)>>]

--------------------------------------------------------------------------
(* load_counts_from_text, load_full_from_text *)

\* the longest prefix of the items whose keys all convert
RECURSIVE ConvertiblePrefix(_)
ConvertiblePrefix(members) ==
    IF members = <<>> \/ ~IsIntLiteral(members[1][1]) THEN <<>>
    ELSE <<members[1]>> \o ConvertiblePrefix(Tail(members))

\* load_counts_from_text filling the store item by item, so that a key that does
\* not convert leaves the items before it loaded
load_counts_item_by_item(json_str) ==
    LET loaded == IF json_str.kind = "object"
                  THEN DictOfItems(ConvertiblePrefix(json_str.members))
                  ELSE appearance_counts
        err    == LoadCountsError(json_str)
    IN  /\ appearance_counts' = loaded
        /\ UNCHANGED session_config
        /\ last' = [op |-> "load_counts", ok |-> (err = "none"),
                    msg |-> IF err = "none" THEN "loaded" ELSE err,
                    args |-> <<>>, batch |-> <<>>,
                    warning |-> IF err = "none"
                                THEN sorted((DOMAIN loaded)
                                            \ RangeSet(session_config.start, session_config.N))
                                ELSE <<>>,
                    table |-> format_counts_for_table(loaded), ret |-> <<>>]

\* load_counts_from_text checking the loaded keys against the default range
\* instead of the current one
load_counts_default_range(json_str) ==
    IF LoadCountsError(json_str) = "none"
    THEN LET loaded == DictOfItems(json_str.members)
         IN  /\ appearance_counts' = loaded
             /\ UNCHANGED session_config
             /\ last' = [op |-> "load_counts", ok |-> TRUE, msg |-> "loaded",
                         args |-> <<>>, batch |-> <<>>,
                         warning |-> sorted((DOMAIN loaded)
                                            \ RangeSet(DefaultConfig.start, DefaultConfig.N)),
                         table |-> format_counts_for_table(loaded), ret |-> <<>>]
    ELSE /\ UNCHANGED <<appearance_counts, session_config>>
         /\ last' = [op |-> "load_counts", ok |-> FALSE,
                     msg |-> LoadCountsError(json_str),
                     args |-> <<>>, batch |-> <<>>, warning |-> <<>>,
                     table |-> format_counts_for_table(appearance_counts), ret |-> <<>>]

load_counts_from_text(json_str) ==
    IF LoadCountsError(json_str) = "none"
    THEN LET loaded == DictOfItems(json_str.members)
             N      == session_config.N
             start  == session_config.start
         IN  /\ appearance_counts' = loaded
             /\ UNCHANGED session_config
             /\ last' = [op |-> "load_counts", ok |-> TRUE, msg |-> "loaded",
                         args |-> <<>>, batch |-> <<>>,
                         warning |-> sorted((DOMAIN loaded) \ RangeSet(start, N)),
                         table |-> format_counts_for_table(loaded), ret |-> <<>>]
    ELSE /\ UNCHANGED <<appearance_counts, session_config>>
         /\ last' = [op |-> "load_counts", ok |-> FALSE,
                     msg |-> LoadCountsError(json_str),
                     args |-> <<>>, batch |-> <<>>, warning |-> <<>>,
                     table |-> format_counts_for_table(appearance_counts), ret |-> <<>>]

load_full_from_text(json_str) ==
    IF LoadFullCountsError(json_str) = "none"
    THEN LET loaded == DictOfItems(json_str.fields["appearance_counts"].members)
         IN  /\ appearance_counts' = loaded
             /\ IF LoadFullConfigError(json_str) = "none"
                THEN /\ session_config' = [N |-> json_str.fields["N"],
                                           k |-> json_str.fields["k"],
                                           start |-> json_str.fields["start"]]
                     /\ last' = [op |-> "load_full", ok |-> TRUE, msg |-> "restored",
                                 args |-> <<>>, batch |-> <<>>, warning |-> <<>>,
                                 table |-> format_counts_for_table(loaded),
                                 ret |-> <<json_str.fields["N"], json_str.fields["k"],
                                           json_str.fields["start"]>>]
                ELSE /\ UNCHANGED session_config
                     /\ last' = [op |-> "load_full", ok |-> FALSE,
                                 msg |-> LoadFullConfigError(json_str),
                                 args |-> <<>>, batch |-> <<>>, warning |-> <<>>,
                                 table |-> format_counts_for_table(loaded),
                                 ret |-> <<session_config.N, session_config.k,
                                           session_config.start>>]
    ELSE /\ UNCHANGED <<appearance_counts, session_config>>
         /\ last' = [op |-> "load_full", ok |-> FALSE,
                     msg |-> LoadFullCountsError(json_str),
                     args |-> <<>>, batch |-> <<>>, warning |-> <<>>,
                     table |-> format_counts_for_table(appearance_counts),
                     ret |-> <<session_config.N, session_config.k, session_config.start>>]

--------------------------------------------------------------------------
(* load_from_file *)

\* file_obj is None
NoFile == [kind |-> "none"]

load_from_file(file_obj) ==
    IF file_obj = NoFile
    THEN /\ UNCHANGED <<appearance_counts, session_config>>
         /\ last' = [op |-> "load_file", ok |-> FALSE, msg |-> "No file selected",
                     args |-> <<>>, batch |-> <<>>, warning |-> <<>>,
                     table |-> format_counts_for_table(appearance_counts), ret |-> <<>>]
    ELSE IF "appearance_counts" \in Fields(file_obj)
    THEN \* lines 202-210: a full configuration file
         IF LoadFullCountsError(file_obj) = "none"
         THEN LET loaded == DictOfItems(file_obj.fields["appearance_counts"].members)
                  err    == LoadFullConfigError(file_obj)
              IN  /\ appearance_counts' = loaded
                  /\ IF err = "none"
                     THEN session_config' = [N |-> file_obj.fields["N"],
                                             k |-> file_obj.fields["k"],
                                             start |-> file_obj.fields["start"]]
                     ELSE UNCHANGED session_config
                  /\ last' = [op |-> "load_file", ok |-> (err = "none"),
                              msg |-> IF err = "none" THEN "loaded" ELSE err,
                              args |-> <<>>, batch |-> <<>>, warning |-> <<>>,
                              table |-> format_counts_for_table(loaded),
                              ret |-> IF err = "none"
                                      THEN <<file_obj.fields["N"], file_obj.fields["k"],
                                             file_obj.fields["start"]>>
                                      ELSE <<>>]
         ELSE /\ UNCHANGED <<appearance_counts, session_config>>
              /\ last' = [op |-> "load_file", ok |-> FALSE,
                          msg |-> LoadFullCountsError(file_obj),
                          args |-> <<>>, batch |-> <<>>, warning |-> <<>>,
                          table |-> format_counts_for_table(appearance_counts),
                          ret |-> <<>>]
    ELSE \* lines 211-214: just counts
         IF LoadCountsError(file_obj) = "none"
         THEN LET loaded == DictOfItems(file_obj.members)
              IN  /\ appearance_counts' = loaded
                  /\ UNCHANGED session_config
                  /\ last' = [op |-> "load_file", ok |-> TRUE, msg |-> "loaded",
                              args |-> <<>>, batch |-> <<>>, warning |-> <<>>,
                              table |-> format_counts_for_table(loaded), ret |-> <<>>]
         ELSE /\ UNCHANGED <<appearance_counts, session_config>>
              /\ last' = [op |-> "load_file", ok |-> FALSE,
                          msg |-> LoadCountsError(file_obj),
                          args |-> <<>>, batch |-> <<>>, warning |-> <<>>,
                          table |-> format_counts_for_table(appearance_counts),
                          ret |-> <<>>]

--------------------------------------------------------------------------
(* The texts the session is given *)

Obj(ms) == [kind |-> "object", members |-> ms]

Malformed == [kind |-> "malformed"]

Array == [kind |-> "array"]

\* {"1": -1, "2": 1}: a negative count, and counts two apart
Unbalanced == Obj(<< <<<<"1">>, 0 - 1>>, <<<<"2">>, 1>> >>)

\* {"-1": 2, "3": 1}: a negative item, and items outside the ranges requested
Stale == Obj(<< <<<<"-", "1">>, 2>>, <<<<"3">>, 1>> >>)

\* {"2": 2, "02": 0}: two keys of one item
TwoKeys == Obj(<< <<<<"2">>, 2>>, <<<<"0", "2">>, 0>> >>)

\* {"3": 1, "x": 2}: a key that is no integer, after one that is
BadKey == Obj(<< <<<<"3">>, 1>>, <<<<"x">>, 2>> >>)

\* a full-progress text with the fields present, of counts ac and config c = <<N, k, start>>
Full(present, ac, c) ==
    [kind |-> "full",
     fields |-> [f \in present |->
                   CASE f = "appearance_counts" -> ac
                     [] f = "N" -> c[1]
                     [] f = "k" -> c[2]
                     [] f = "start" -> c[3]]]

AllFields == {"appearance_counts", "N", "k", "start"}

\* full-progress texts: complete ones (one of them with N = 0, one with a key that is
\* no integer, one whose appearance_counts is a list), and ones lacking one field
FullTexts ==
    { Full(AllFields, Stale, <<2, 1, 2>>),
      Full(AllFields, Unbalanced, <<0, 3, 1>>),
      Full(AllFields, BadKey, <<2, 1, 2>>),
      Full(AllFields, Array, <<2, 1, 2>>) }
    \cup { Full(AllFields \ {f}, Stale, <<1, 1, 3>>) : f \in AllFields }

\* texts pasted into "Paste Counts JSON"
CountsInputs ==
    { Obj(<<>>), Unbalanced, Stale, TwoKeys, BadKey, Malformed, Array,
      Full(AllFields, Stale, <<2, 1, 2>>) }

\* texts pasted into "Paste Full Config JSON"
FullInputs == FullTexts \cup {Malformed, Array, Stale}

\* files uploaded with "Load File", and no file at all
FileInputs ==
    { NoFile, Malformed, Stale,
      Full(AllFields, Stale, <<2, 1, 2>>),
      Full(AllFields \ {"k"}, Stale, <<1, 1, 3>>) }

--------------------------------------------------------------------------

\* a caller's record while it is not in generate_fair_batch
Idle == [pc |-> "idle", args |-> <<>>, warning |-> <<>>, min_count |-> 0,
         eligible |-> <<>>, batch |-> <<>>, num |-> 0]

\* the callers that can be in generate_fair_batch at the same time
Callers == {1, 2}

\* no call in progress
NoCalls == [p \in Callers |-> Idle]

\* no file kept
NoKept == [text |-> NoFile, counts |-> EmptyCounts, config |-> DefaultConfig]

Init ==
    /\ appearance_counts = EmptyCounts
    /\ session_config = DefaultConfig
    /\ last = [op |-> "init", ok |-> TRUE, msg |-> "", args |-> <<>>, batch |-> <<>>,
               warning |-> <<>>, table |-> <<>>, ret |-> <<>>]
    /\ kept = NoKept
    /\ calls = NoCalls

\* the Generate button: N and k are whole numbers >= 1 (app.py:359-361)
Generate ==
    \E N \in 1..MaxN, k \in 1..MaxK, start \in Starts :
        /\ \A i \in RangeSet(start, N) : Get(appearance_counts, i) < MaxCount
        /\ generate_fair_batch(N, k, start)

LoadCounts == \E json_str \in CountsInputs : load_counts_from_text(json_str)

LoadFull == \E json_str \in FullInputs : load_full_from_text(json_str)

LoadFile == \E file_obj \in FileInputs : load_from_file(file_obj)

\* the text "Save Counts Only" has just produced, pasted into "Paste Counts JSON"
ReloadCounts ==
    /\ last.op = "save_counts"
    /\ load_counts_from_text(last.ret[1])

\* one click; no file is kept in these runs
Next ==
    \/ Generate /\ UNCHANGED <<kept, calls>>
    \/ reset_progress /\ UNCHANGED <<kept, calls>>
    \/ clean_counts_to_current_range /\ UNCHANGED <<kept, calls>>
    \/ save_counts_only /\ UNCHANGED <<kept, calls>>
    \/ save_full_progress /\ UNCHANGED <<kept, calls>>
    \/ LoadCounts /\ UNCHANGED <<kept, calls>>
    \/ LoadFull /\ UNCHANGED <<kept, calls>>
    \/ LoadFile /\ UNCHANGED <<kept, calls>>
    \/ ReloadCounts /\ UNCHANGED <<kept, calls>>

Spec == Init /\ [][Next]_vars

--------------------------------------------------------------------------
(* Runs of generate alone, from the empty store, with one (N, start) and    *)
(* every batch size at most the size of the minimum-count tier              *)

\* largest range size of these runs
FairMaxN == 4

FairGenerate ==
    \E N \in 1..FairMaxN, k \in 1..FairMaxN, start \in Starts :
        /\ last.op = "init" \/ (N = session_config.N /\ start = session_config.start)
        /\ k <= Len(eligible(appearance_counts, start, N))
        /\ \A i \in RangeSet(start, N) : Get(appearance_counts, i) < MaxCount
        /\ generate_fair_batch(N, k, start)
        /\ UNCHANGED <<kept, calls>>

SpecFair == Init /\ [][FairGenerate]_vars

--------------------------------------------------------------------------
(* Runs in which the user keeps a file written by "Save Full Config" and    *)
(* later pastes it into "Paste Full Config JSON", whatever was clicked in   *)
(* between                                                                  *)

\* "Save Full Config", the file kept
KeepFull ==
    /\ save_full_progress
    /\ kept' = [text |-> DumpFull(appearance_counts, session_config),
                counts |-> appearance_counts, config |-> session_config]
    /\ UNCHANGED calls

\* the kept file pasted into "Paste Full Config JSON"
RestoreKept ==
    /\ kept.text # NoFile
    /\ load_full_from_text(kept.text)
    /\ UNCHANGED <<kept, calls>>

\* the generate requests of these runs: one of two items, a rejected one, a full range
KeptRequests == { <<2, 1, 1>>, <<1, 2, 2>>, <<2, 2, 2>> }

\* generate is not called in these runs once an in-range count has reached this cap
KeptMaxCount == 1

KeptGenerate ==
    \E r \in KeptRequests :
        /\ \A i \in RangeSet(r[3], r[1]) : Get(appearance_counts, i) < KeptMaxCount
        /\ generate_fair_batch(r[1], r[2], r[3])
        /\ UNCHANGED <<kept, calls>>

KeptNext ==
    \/ KeepFull
    \/ RestoreKept
    \/ KeptGenerate
    \/ reset_progress /\ UNCHANGED <<kept, calls>>
    \/ clean_counts_to_current_range /\ UNCHANGED <<kept, calls>>
    \/ load_counts_from_text(Stale) /\ UNCHANGED <<kept, calls>>

SpecKept == Init /\ [][KeptNext]_vars

--------------------------------------------------------------------------
(* Two generate calls at once, statement by statement.  The handlers are   *)
(* plain functions on the module's globals and take no lock (app.py:19-53). *)

\* the requests of the two callers: one of two items, both items, a rejected one
ConcRequests == { <<2, 1, 1>>, <<2, 2, 1>>, <<1, 2, 1>> }

\* caller p has reached statement pc
At(p, pc) == calls[p].pc = pc

\* caller p moves on with the locals of c
Goto(p, c) == calls' = [calls EXCEPT ![p] = c]

\* the Generate button is pressed by a caller that has no call in progress
Call(p) ==
    /\ At(p, "idle")
    /\ \E r \in ConcRequests : Goto(p, [Idle EXCEPT !.pc = "l21", !.args = r])
    /\ UNCHANGED <<appearance_counts, session_config, last, kept>>

\* line 21: session_config.update(...)
L21(p) ==
    /\ At(p, "l21")
    /\ session_config' = [N |-> calls[p].args[1], k |-> calls[p].args[2],
                          start |-> calls[p].args[3]]
    /\ Goto(p, [calls[p] EXCEPT !.pc = "l22"])
    /\ UNCHANGED <<appearance_counts, last, kept>>

\* lines 22-23: if k > N: return
L22(p) ==
    /\ At(p, "l22")
    /\ IF calls[p].args[2] > calls[p].args[1]
       THEN /\ Goto(p, [calls[p] EXCEPT !.pc = "done"])
            /\ last' = [op |-> "generate", ok |-> FALSE, msg |-> "rejected",
                        args |-> calls[p].args, batch |-> <<>>, warning |-> <<>>,
                        table |-> <<>>, ret |-> <<>>]
       ELSE /\ Goto(p, [calls[p] EXCEPT !.pc = "l27"])
            /\ UNCHANGED last
    /\ UNCHANGED <<appearance_counts, session_config, kept>>

\* lines 25-34: the keys of the store are read and the warning is prepared
L27(p) ==
    /\ At(p, "l27")
    /\ Goto(p, [calls[p] EXCEPT
                  !.pc = "l37",
                  !.warning = sorted(out_of_range(appearance_counts,
                                                  calls[p].args[3], calls[p].args[1]))])
    /\ UNCHANGED <<appearance_counts, session_config, last, kept>>

\* line 37: min_count = min(appearance_counts.get(i, 0) for i in full_range)
L37(p) ==
    /\ At(p, "l37")
    /\ Goto(p, [calls[p] EXCEPT
                  !.pc = "l38",
                  !.min_count = min_count(appearance_counts,
                                          calls[p].args[3], calls[p].args[1])])
    /\ UNCHANGED <<appearance_counts, session_config, last, kept>>

\* line 38: eligible = [i for i in full_range if appearance_counts[i] == min_count],
\* against the min_count read at line 37; the reads insert the missing items
L38(p) ==
    /\ At(p, "l38")
    /\ Goto(p, [calls[p] EXCEPT
                  !.pc = "l39",
                  !.eligible = SelectSeq(full_range(calls[p].args[3], calls[p].args[1]),
                                         LAMBDA i : Get(appearance_counts, i)
                                                        = calls[p].min_count)])
    /\ appearance_counts' =
           Touch(appearance_counts, RangeSet(calls[p].args[3], calls[p].args[1]))
    /\ UNCHANGED <<session_config, last, kept>>

\* lines 39-47: the batch is drawn from the caller's own eligible list
L39(p) ==
    /\ At(p, "l39")
    /\ \E e \in Shuffles(calls[p].eligible) :
         LET k     == calls[p].args[2]
             batch == PopLoop(e, <<>>, k)
         IN  IF Len(batch) < k
             THEN \E extra \in Sample(remaining(calls[p].args[3], calls[p].args[1], batch),
                                      k - Len(batch)) :
                     Goto(p, [calls[p] EXCEPT !.pc = "l49", !.batch = batch \o extra,
                                              !.num = 1])
             ELSE Goto(p, [calls[p] EXCEPT !.pc = "l49", !.batch = batch, !.num = 1])
    /\ UNCHANGED <<appearance_counts, session_config, last, kept>>

\* lines 49-50: one turn of "for num in batch: appearance_counts[num] += 1"
L50(p) ==
    /\ At(p, "l49")
    /\ calls[p].num <= Len(calls[p].batch)
    /\ appearance_counts' = Increment(appearance_counts, <<calls[p].batch[calls[p].num]>>)
    /\ Goto(p, [calls[p] EXCEPT !.num = @ + 1])
    /\ UNCHANGED <<session_config, last, kept>>

\* lines 52-53: the loop is over and the call returns the store as it is now
L53(p) ==
    /\ At(p, "l49")
    /\ calls[p].num > Len(calls[p].batch)
    /\ Goto(p, [calls[p] EXCEPT !.pc = "done"])
    /\ last' = [op |-> "generate", ok |-> TRUE, msg |-> "batch", args |-> calls[p].args,
                batch |-> calls[p].batch, warning |-> calls[p].warning,
                table |-> format_counts_for_table(appearance_counts), ret |-> <<>>]
    /\ UNCHANGED <<appearance_counts, session_config, kept>>

ConcNext ==
    \E p \in Callers :
        \/ Call(p)
        \/ L21(p)
        \/ L22(p)
        \/ L27(p)
        \/ L37(p)
        \/ L38(p)
        \/ L39(p)
        \/ L50(p)
        \/ L53(p)

\* the two calls start on the empty store and interleave freely
SpecConc == Init /\ [][ConcNext]_vars

--------------------------------------------------------------------------
(* Claims *)

\* the items of the current RangeConfig
CurrentRange == RangeSet(session_config.start, session_config.N)

\* s has no item twice
Distinct(s) == \A i, j \in 1..Len(s) : i # j => s[i] # s[j]

\* C1: a generate request with 1 <= k <= N, whatever the store held (nothing, counts,
\* stale keys, loaded counts), returns a batch of exactly k pairwise distinct items,
\* each in [start, start + N).
C1_BatchOfKDistinctInRange ==
    (last.op = "generate" /\ 1 <= last.args[2] /\ last.args[2] <= last.args[1]) =>
        /\ last.ok
        /\ Len(last.batch) = last.args[2]
        /\ Distinct(last.batch)
        /\ ToSet(last.batch) \subseteq RangeSet(last.args[3], last.args[1])

\* a batch of two was drawn, the second by the fallback fill, from a loaded store
\* with stale keys
C1_Witness ==
    /\ last.op = "generate" /\ last.ok
    /\ Len(last.batch) = 2
    /\ last.warning # <<>>
    /\ appearance_counts[last.batch[1]] < appearance_counts[last.batch[2]]

\* C2: generate with k > N produces no batch and leaves the store as it was: no
\* count changes, no key is added or removed.
C2_RejectedLeavesCounts ==
    [][(last'.op = "generate" /\ last'.args[2] > last'.args[1]) =>
          /\ ~last'.ok
          /\ last'.batch = <<>>
          /\ appearance_counts' = appearance_counts]_vars

\* a request with k > N was rejected while the store held counts, some item of the
\* requested range having none
C2_Witness ==
    /\ last.op = "generate" /\ last.args[2] > last.args[1]
    /\ DOMAIN appearance_counts # {}
    /\ RangeSet(last.args[3], last.args[1]) \ DOMAIN appearance_counts # {}

\* C3: after every generate(N, k, start), accepted or rejected, the RangeConfig is
\* exactly the requested (N, k, start).
C3_ConfigIsRequest ==
    last.op = "generate" =>
        session_config = [N |-> last.args[1], k |-> last.args[2], start |-> last.args[3]]

\* a rejected request, whose k > N is now the session's config
C3_Witness ==
    /\ last.op = "generate" /\ ~last.ok
    /\ session_config.k > session_config.N
    /\ session_config # DefaultConfig

\* C4: from the empty store, after generate calls with one (N, start) and every k at
\* most the size of the minimum-count tier, any two items of the range have counts
\* at most 1 apart.
C4_CountsWithinOne ==
    \A i, j \in CurrentRange :
        Get(appearance_counts, i) - Get(appearance_counts, j) <= 1

\* N = 4: a batch of 4, then a batch of 2, leave two items at 2 and two at 1
C4_Witness ==
    /\ last.op = "generate" /\ last.args = <<4, 2, 1>>
    /\ Cardinality({i \in CurrentRange : Get(appearance_counts, i) = 2}) = 2
    /\ Cardinality({i \in CurrentRange : Get(appearance_counts, i) = 1}) = 2

\* C5: importFull of a text lacking one of appearance_counts, N, k, start reports an
\* error and leaves the store and the RangeConfig as they were.
C5_MissingFieldLeavesState ==
    [][(last'.op = "load_full"
          /\ last'.msg \in {"KeyError appearance_counts", "KeyError N",
                            "KeyError k", "KeyError start"}) =>
          /\ ~last'.ok
          /\ appearance_counts' = appearance_counts
          /\ session_config' = session_config]_vars

\* C6: importCounts never changes the RangeConfig, and a failed importCounts
\* (malformed JSON, no object, a key that is no integer) leaves the store as it was.
C6_LoadCountsFrame ==
    [][last'.op = "load_counts" =>
          /\ session_config' = session_config
          /\ (~last'.ok => appearance_counts' = appearance_counts)]_vars

\* an importCounts failed on a key that is no integer, the store holding counts
C6_Witness ==
    /\ last.op = "load_counts" /\ ~last.ok /\ last.msg = "ValueError"
    /\ DOMAIN appearance_counts # {}
    /\ session_config # DefaultConfig

\* C7: every count of the store is >= 0 in every reachable state.
C7_CountsNonNegative ==
    \A i \in DOMAIN appearance_counts : appearance_counts[i] >= 0

\* C8: the RangeConfig has N >= 1 and 1 <= k <= N in every reachable state.
C8_ConfigValid ==
    /\ session_config.N >= 1
    /\ 1 <= session_config.k
    /\ session_config.k <= session_config.N

\* C9: after clean, every key is in [start, start + N) of the RangeConfig, every key
\* that was outside is gone, every key inside keeps its count, and the RangeConfig
\* is unchanged.
C9_CleanFrame ==
    [][last'.op = "clean" =>
          /\ session_config' = session_config
          /\ DOMAIN appearance_counts' \subseteq CurrentRange'
          /\ DOMAIN appearance_counts' = (DOMAIN appearance_counts) \cap CurrentRange
          /\ \A i \in (DOMAIN appearance_counts) \cap CurrentRange :
                appearance_counts'[i] = appearance_counts[i]]_vars

\* a clean removed two keys and kept a count
C9_Witness ==
    /\ last.op = "clean" /\ Len(last.to_delete) = 2
    /\ \E i \in DOMAIN appearance_counts : appearance_counts[i] # 0

\* C10: after reset the store is empty and the RangeConfig is (start=1, N=10, k=3).
C10_ResetState ==
    last.op = "reset" =>
        /\ appearance_counts = EmptyCounts
        /\ session_config = [N |-> 10, k |-> 3, start |-> 1]

\* a reset has run
C10_Witness ==
    /\ last.op = "reset"
    /\ last.ret = <<10, 3, 1>>

\* C11: importCounts of the text exportCounts has just written leaves the store with
\* the same keys and counts (each key written by str and read back by int), and
\* leaves the RangeConfig unchanged.
C11_CountsRoundTrip ==
    [][(last.op = "save_counts" /\ load_counts_from_text(last.ret[1])) =>
          /\ last'.ok
          /\ appearance_counts' = appearance_counts
          /\ session_config' = session_config]_vars

\* counts with a negative item and a zero count were exported and loaded back
C11_Witness ==
    /\ last.op = "load_counts" /\ last.ok
    /\ last.table = format_counts_for_table(appearance_counts)
    /\ \E i \in DOMAIN appearance_counts : i < 0
    /\ \E i \in DOMAIN appearance_counts : appearance_counts[i] = 0

\* C12: importFull of a text exportFull wrote restores the store and the (N, k, start)
\* of the moment of the export, whatever generate, reset, clean or an import changed
\* in between.
C12_FullRoundTrip ==
    [][(kept.text # NoFile /\ load_full_from_text(kept.text)) =>
          /\ last'.ok
          /\ appearance_counts' = kept.counts
          /\ session_config' = kept.config]_vars

\* a file saved with a negative item and with k > N was loaded back over a store and
\* a config that had both changed since
C12_Witness ==
    /\ last.op = "load_full" /\ last.ok
    /\ appearance_counts = kept.counts /\ session_config = kept.config
    /\ \E i \in DOMAIN appearance_counts : i < 0
    /\ session_config.k > session_config.N /\ session_config.N >= 1

\* C13: every failure path (generate with k > N, a failed counts import, a failed full
\* import) returns a table that shows the store as it is after the call.
C13_FailureShowsStore ==
    (last.op \in {"generate", "load_counts", "load_full"} /\ ~last.ok) =>
        last.table = format_counts_for_table(appearance_counts)

\* the in-range items whose count (0 if absent) is the least of the range
MinTier(counts, start, N) ==
    {i \in RangeSet(start, N) : \A j \in RangeSet(start, N) : Get(counts, i) <= Get(counts, j)}

\* C14: in a successful generate, with T the least-drawn in-range items before the
\* call: when T has at least k items the batch is drawn from T alone; otherwise the
\* batch holds all of T and the other k - |T| members are in-range items outside T.
C14_MinTierFirst ==
    [][(last'.op = "generate" /\ last'.ok) =>
          LET N     == last'.args[1]
              k     == last'.args[2]
              start == last'.args[3]
              T     == MinTier(appearance_counts, start, N)
              B     == ToSet(last'.batch)
          IN  IF Cardinality(T) >= k
              THEN B \subseteq T
              ELSE /\ T \subseteq B
                   /\ (B \ T) \subseteq (RangeSet(start, N) \ T)
                   /\ Cardinality(B \ T) = k - Cardinality(T)]_vars

\* a batch whose members had different counts before the call: the least-drawn
\* tier was too small and the fallback filled the batch
C14_Witness ==
    /\ last.op = "generate" /\ last.ok
    /\ \E i, j \in ToSet(last.batch) : appearance_counts[i] < appearance_counts[j]

\* C15: a successful generate changes the store only by adding 1 to each batch
\* member (from 0 when it had no entry): every other entry keeps its count and the
\* keys afterwards are the old keys together with the batch.
C15_OnlyBatchTouched ==
    [][(last'.op = "generate" /\ last'.ok) =>
          LET B == ToSet(last'.batch)
          IN  /\ DOMAIN appearance_counts' = (DOMAIN appearance_counts) \cup B
              /\ \A i \in B : appearance_counts'[i] = Get(appearance_counts, i) + 1
              /\ \A i \in (DOMAIN appearance_counts) \ B :
                     appearance_counts'[i] = appearance_counts[i]]_vars

\* s lists exactly the members of S, ascending
ListsAscending(s, S) ==
    /\ ToSet(s) = S
    /\ \A a, b \in 1..Len(s) : a < b => s[a] < s[b]

\* C16: a successful generate(N, k, start) warns exactly when the store held a key
\* outside [start, start+N) before the call; the warning lists those keys ascending,
\* and their entries are still in the store with the same counts after the call.
C16_WarningListsStale ==
    [][(last'.op = "generate" /\ last'.ok) =>
          LET stale == (DOMAIN appearance_counts) \ RangeSet(last'.args[3], last'.args[1])
          IN  /\ (last'.warning # <<>>) <=> (stale # {})
              /\ ListsAscending(last'.warning, stale)
              /\ \A i \in stale : /\ i \in DOMAIN appearance_counts'
                                  /\ appearance_counts'[i] = appearance_counts[i]]_vars

\* a batch returned with a warning for an item below the range and one above it
C16_Witness ==
    /\ last.op = "generate" /\ last.ok
    /\ Len(last.warning) = 2
    /\ last.warning[1] < last.args[3]
    /\ last.warning[2] >= last.args[3] + last.args[1]
    /\ \A n \in 1..2 : last.warning[n] \in DOMAIN appearance_counts

\* C17: a successful counts import warns exactly when a loaded key lies outside
\* [start, start+N) of the config current at the call (the one the latest generate,
\* even a rejected one, reset or full import left); the warning lists those keys
\* ascending, and their loaded entries are in the store.
C17_ImportWarning ==
    [][(last'.op = "load_counts" /\ last'.ok) =>
          LET stale == (DOMAIN appearance_counts')
                           \ RangeSet(session_config.start, session_config.N)
          IN  /\ session_config' = session_config
              /\ (last'.warning # <<>>) <=> (stale # {})
              /\ ListsAscending(last'.warning, stale)
              /\ last'.table = format_counts_for_table(appearance_counts')]_vars

\* a counts import made after a rejected generate had set the range: an in-range
\* key of the default range is reported as stale
C17_Witness ==
    /\ last.op = "load_counts" /\ last.ok
    /\ session_config.k > session_config.N /\ session_config.N >= 1
    /\ \E n \in 1..Len(last.warning) :
          /\ last.warning[n] \in RangeSet(DefaultConfig.start, DefaultConfig.N)
          /\ last.warning[n] \in DOMAIN appearance_counts

\* the stores one whole generate_fair_batch(r) can leave when it starts on counts
GenerateResults(counts, r) ==
    IF r[2] > r[1] THEN {counts}
    ELSE {Increment(Touch(counts, RangeSet(r[3], r[1])), batch) :
             batch \in Batches(counts, r[1], r[2], r[3])}

\* the stores the two calls can leave when one runs after the other, from the
\* empty store
SerialResults(r1, r2) ==
    UNION {GenerateResults(c, r2) : c \in GenerateResults(EmptyCounts, r1)}
      \cup UNION {GenerateResults(c, r1) : c \in GenerateResults(EmptyCounts, r2)}

\* C18: when two generate calls on the same session have run at once, interleaved
\* statement by statement, the store is one that the two calls leave when run one
\* after the other in some order.
C18_Serializable ==
    (\A p \in Callers : calls[p].pc = "done") =>
        appearance_counts \in SerialResults(calls[1].args, calls[2].args)

\* the largest member of a non-empty set of integers
SetMax(S) == CHOOSE m \in S : \A x \in S : x <= m

\* max - min of the counts (0 if absent) over the range [start, start+N)
Spread(counts, start, N) ==
    LET cs == {Get(counts, i) : i \in RangeSet(start, N)}
    IN  SetMax(cs) - SetMin(cs)

\* C19: a successful generate never widens the spread of the counts over its range
\* beyond 1: the spread after the call is at most the larger of the spread before
\* the call and 1, whatever the store held and whether or not the fallback filled
\* the batch.
C19_SpreadNotWidened ==
    [][(last'.op = "generate" /\ last'.ok) =>
          LET N      == last'.args[1]
              start  == last'.args[3]
              before == Spread(appearance_counts, start, N)
              after  == Spread(appearance_counts', start, N)
          IN  after <= IF before > 1 THEN before ELSE 1]_vars

\* a batch filled by the fallback on a store whose in-range counts were 2 apart
C19_Witness ==
    /\ last.op = "generate" /\ last.ok
    /\ \E i, j \in ToSet(last.batch) : appearance_counts[j] - appearance_counts[i] = 2
    /\ Spread(appearance_counts, last.args[3], last.args[1]) = 2

\* C20: a generate rejected for k > N still sets the range a following clean keeps:
\* after the rejected generate(N, k, start) and then clean, the store is the old
\* store cut down to the keys in [start, start+N), although the rejected call
\* changed no count.
C20_RejectedSetsCleanRange ==
    [][(last.op = "generate" /\ ~last.ok /\ last'.op = "clean") =>
          LET R == RangeSet(last.args[3], last.args[1])
          IN  /\ DOMAIN appearance_counts' = (DOMAIN appearance_counts) \cap R
              /\ \A i \in DOMAIN appearance_counts' :
                     appearance_counts'[i] = appearance_counts[i]]_vars

\* a clean that removed an item of the default range, after a rejected generate
\* had set a smaller range
C20_Witness ==
    /\ last.op = "clean"
    /\ session_config.k > session_config.N /\ session_config.N >= 1
    /\ \E n \in 1..Len(last.to_delete) :
          last.to_delete[n] \in RangeSet(DefaultConfig.start, DefaultConfig.N) \ CurrentRange
    /\ appearance_counts # EmptyCounts

============================================================================
